---- MODULE Spec2Model ----
(***************************************************************************)
(* Simulated annealing: the OptimizationProblem (current solution and the  *)
(* caller's objective function and solution updater) and the               *)
(* SimulatedAnnealing orchestrator (acceptance decision, inner-step loop,  *)
(* history recording, schedule advance).                                   *)
(*                                                                         *)
(* Python objects are modelled as non-empty sequences of integers:         *)
(*   <<n>>            a raw candidate value n (an int, a list, ...): it    *)
(*                    has no get_objective_value attribute;                *)
(*   Append(v, o)     an OptimizationSolution whose value is the object v  *)
(*                    and whose objective value is o.                      *)
(* The empty sequence stands for None / no object.                         *)
(* Real numbers in [0, 1] are fixed-point integers in units of 1/Scale.    *)
(***************************************************************************)
EXTENDS Integers, Sequences, FiniteSets, TLC

\* ---------------------------------------------------------------- bounds
NumValues == 2     \* raw candidate values are 0 .. NumValues-1
MaxTemp   == 1     \* the schedule starts at MaxTemp (or at 0)
MaxSteps  == 2     \* largest inner-step count the iteration function returns
MaxCalls  == 2     \* outer iterations the driver runs

\* fixed-point unit for floats: 1.0 is Scale
Scale == 1000

RawValues == 0 .. (NumValues - 1)
Raw(n) == <<n>>
None == <<>>

\* uniform draws of np.random.rand() in [0, 1): 0.0 is a possible draw, 1.0 is not
RandomDraws == {0, Scale - 1}

\* ------------------------------------------------ OptimizationSolution
OptimizationSolution(value, objective_value) == Append(value, objective_value)
get_solution_value(s) == SubSeq(s, 1, Len(s) - 1)
get_objective_value(s) == s[Len(s)]
\* attribute lookup: only OptimizationSolution objects have the accessors
HasObjectiveAccessor(o) == Len(o) > 1

VARIABLES
    current_solution,    \* OptimizationProblem._current_solution
    current_temp,        \* the schedule's current temperature
    temps, solutions,    \* the caller's history buffers
    pc,                  \* "idle", or "loop" inside perform_annealing_iteration
    iter_count,          \* the iter_count argument of the call in progress
    remaining,           \* inner steps of the for loop still to run
    objective_on_object, \* what the caller's objective function does with an
                         \* argument that is not a raw value (fixed per run):
                         \* it raises, or it maps every such object to one cost
    op,                  \* the operation that acted last
    raised,              \* the fault the last driver call propagated, or "none"
    step,                \* what the last run_annealing_step did
    call,                \* the call in progress / last call of
                         \* perform_annealing_iteration: state at entry, counters
    calls                \* calls of perform_annealing_iteration so far

vars == <<current_solution, current_temp, temps, solutions, pc, iter_count,
          remaining, objective_on_object, op, raised, step, call, calls>>

NoFault == "none"
Ok(v) == [raised |-> NoFault, value |-> v]
Fault(f) == [raised |-> f, value |-> None]

\* ------------------------------------------------- caller's collaborators
\* objective function on raw values: 5, 10, 0, 5, ... ; it raises on the value
\* Infeasible, which the updater can return but no Problem starts from
ObjectiveTable(n) == 5 * ((n + 1) % 3)
Infeasible == NumValues

ObjectiveValues == {ObjectiveTable(n) : n \in RawValues}

objective_function(v) ==
    IF Len(v) = 1
    THEN IF v[1] = Infeasible
         THEN [raised |-> "ObjectiveFault", value |-> 0]
         ELSE [raised |-> NoFault, value |-> ObjectiveTable(v[1])]
    ELSE objective_on_object

\* the outcomes of one call of the (randomised) solution updater on v
solution_updater(v) ==
    {Fault("UpdaterFault")} \cup
    IF Len(v) = 1
    THEN {Ok(Raw((v[1] + d) % (NumValues + 1))) : d \in {0, 1, NumValues}}
    ELSE {Ok(Raw(n)) : n \in RawValues \cup {Infeasible}}

\* the outcomes of one call of the iteration function
iteration_function(i) ==
    {[raised |-> "IterationFault", value |-> 0]} \cup
    {[raised |-> NoFault, value |-> k] : k \in 0 .. MaxSteps}

\* --------------------------------------------------- temperature schedule
get_current_temp(temp) == temp
update_temp(temp) == IF temp > 0 THEN temp - 1 ELSE 0

\* ----------------------------------------------------- OptimizationProblem
\* the Problem's only mutable field is _current_solution: `problem` below is
\* that OptimizationSolution object
construct(initial_solution_value) ==
    OptimizationSolution(initial_solution_value,
                         objective_function(initial_solution_value).value)

get_current_solution(problem) == get_solution_value(problem)
get_current_objective_value(problem) == get_objective_value(problem)

\* find_neighbour_solution, with `picked` the updater's outcome on this call
find_neighbour_solution(problem, picked) ==
    LET curr_solution_val == get_solution_value(problem)
        objective == objective_function(picked.value)
    IN  IF picked.raised # NoFault
        THEN [raised |-> picked.raised, result |-> None, problem |-> problem,
              updater_arg |-> curr_solution_val]
        ELSE IF objective.raised # NoFault
        THEN [raised |-> objective.raised, result |-> None, problem |-> problem,
              updater_arg |-> curr_solution_val]
        ELSE [raised |-> NoFault,
              result |-> OptimizationSolution(picked.value, objective.value),
              problem |-> problem, updater_arg |-> curr_solution_val]

\* a commit that keeps the objective value it had cached
update_current_solution_stale(problem, new_solution_val) ==
    LET objective == objective_function(new_solution_val)
    IN  IF objective.raised # NoFault
        THEN [raised |-> objective.raised, problem |-> problem]
        ELSE [raised |-> NoFault,
              problem |-> OptimizationSolution(new_solution_val,
                                               get_objective_value(problem))]

update_current_solution(problem, new_solution_val) ==
    LET objective == objective_function(new_solution_val)
    IN  IF objective.raised # NoFault
        THEN [raised |-> objective.raised, problem |-> problem]
        ELSE [raised |-> NoFault,
              problem |-> OptimizationSolution(new_solution_val, objective.value)]

\* ------------------------------------------------------ SimulatedAnnealing
\* Scale * e^(num/den) for num >= 0, den > 0: the power series, term by term
RECURSIVE ExpTerms(_, _, _, _)
ExpTerms(term, n, num, den) ==
    IF term = 0 THEN 0
    ELSE term + ExpTerms((term * num) \div (den * n), n + 1, num, den)

Exp(num, den) == ExpTerms(Scale, 1, num, den)

\* 1 / np.exp((new_value - old_value) / temp), in units of 1/Scale
annealing_function(temp, old_value, new_value) ==
    IF get_current_temp(temp) = 0
    THEN 0
    ELSE IF new_value >= old_value
    THEN (Scale * Scale) \div Exp(new_value - old_value, get_current_temp(temp))
    ELSE Exp(old_value - new_value, get_current_temp(temp))

\* a decision that draws its random number before it compares the values
should_change_solution_draws_first(temp, old_value, new_value, draw) ==
    IF new_value < old_value
    THEN [result |-> TRUE, draws |-> 1]
    ELSE [result |-> draw <= annealing_function(temp, old_value, new_value),
          draws |-> 1]

\* `draw` is the value np.random.rand() returns if it is called
should_change_solution(temp, old_value, new_value, draw) ==
    IF new_value < old_value
    THEN [result |-> TRUE, draws |-> 0]
    ELSE [result |-> draw <= annealing_function(temp, old_value, new_value),
          draws |-> 1]

NoStep ==
    [raised |-> NoFault, proposed |-> FALSE, judged |-> FALSE,
     updater_arg |-> None, neighbour |-> None, old_value |-> 0,
     new_value |-> 0, temp |-> 0, accepted |-> FALSE, draws |-> 0,
     draw |-> 0, returned |-> None, problem |-> None, committed |-> FALSE]

\* a step that commits the neighbour it accepts
run_annealing_step_commits(problem, temp, picked, draw) ==
    LET curr_solution == get_current_solution(problem)
        found == find_neighbour_solution(problem, picked)
        new_solution == found.result
        change == should_change_solution(temp,
                                         get_objective_value(curr_solution),
                                         get_objective_value(new_solution),
                                         draw)
        base == [NoStep EXCEPT !.updater_arg = found.updater_arg,
                               !.problem = found.problem]
    IN  IF found.raised # NoFault
        THEN [base EXCEPT !.raised = found.raised]
        ELSE IF ~HasObjectiveAccessor(curr_solution)
        THEN [base EXCEPT !.raised = "AttributeError", !.proposed = TRUE,
                          !.neighbour = new_solution]
        ELSE [base EXCEPT !.proposed = TRUE, !.judged = TRUE,
                          !.neighbour = new_solution,
                          !.old_value = get_objective_value(curr_solution),
                          !.new_value = get_objective_value(new_solution),
                          !.temp = get_current_temp(temp),
                          !.accepted = change.result,
                          !.draws = change.draws,
                          !.draw = IF change.draws = 0 THEN 0 ELSE draw,
                          !.returned = IF change.result THEN new_solution
                                       ELSE curr_solution,
                          !.problem = IF change.result THEN new_solution
                                      ELSE found.problem]

\* run_annealing_step: what it returns, and the trace of what it did
run_annealing_step(problem, temp, picked, draw) ==
    LET curr_solution == get_current_solution(problem)
        found == find_neighbour_solution(problem, picked)
        new_solution == found.result
        change == should_change_solution(temp,
                                         get_objective_value(curr_solution),
                                         get_objective_value(new_solution),
                                         draw)
        base == [NoStep EXCEPT !.updater_arg = found.updater_arg,
                               !.problem = found.problem]
    IN  IF found.raised # NoFault
        THEN [base EXCEPT !.raised = found.raised]
        ELSE IF ~HasObjectiveAccessor(curr_solution)
        THEN [base EXCEPT !.raised = "AttributeError", !.proposed = TRUE,
                          !.neighbour = new_solution]
        ELSE [base EXCEPT !.proposed = TRUE, !.judged = TRUE,
                          !.neighbour = new_solution,
                          !.old_value = get_objective_value(curr_solution),
                          !.new_value = get_objective_value(new_solution),
                          !.temp = get_current_temp(temp),
                          !.accepted = change.result,
                          !.draws = change.draws,
                          !.draw = IF change.draws = 0 THEN 0 ELSE draw,
                          !.returned = IF change.result THEN new_solution
                                       ELSE curr_solution]

\* one pass of the for loop of perform_annealing_iteration
inner_step(problem, temp, picked, draw) ==
    LET ran == run_annealing_step(problem, temp, picked, draw)
        updated == update_current_solution(ran.problem, ran.returned)
    IN  IF ran.raised # NoFault
        THEN [raised |-> ran.raised, problem |-> ran.problem, step |-> ran,
              committed |-> FALSE]
        ELSE [raised |-> updated.raised, problem |-> updated.problem,
              step |-> ran, committed |-> updated.raised = NoFault]

\* range(k): the passes of the for loop (none for k <= 0)
loop_count_at_least_once(k) == IF k < 1 THEN 1 ELSE k

loop_count(k) == IF k < 0 THEN 0 ELSE k

\* a loop that catches the fault and goes on
after_step_swallows(fault, left) == [pc |-> "loop", remaining |-> left - 1]

\* where the for loop goes after a pass: a fault leaves the call
after_step(fault, left) ==
    IF fault # NoFault THEN [pc |-> "idle", remaining |-> 0]
    ELSE [pc |-> "loop", remaining |-> left - 1]

\* the history writes one index too far
record_and_advance_off_by_one(i, temps_buf, solutions_buf, temp, problem) ==
    IF i + 1 >= Len(temps_buf)
    THEN [raised |-> "IndexError", temps |-> temps_buf,
          solutions |-> solutions_buf, temp |-> temp, updates |-> 0]
    ELSE IF i + 1 >= Len(solutions_buf)
    THEN [raised |-> "IndexError",
          temps |-> [temps_buf EXCEPT ![i + 2] = <<get_current_temp(temp)>>],
          solutions |-> solutions_buf, temp |-> temp, updates |-> 0]
    ELSE [raised |-> NoFault,
          temps |-> [temps_buf EXCEPT ![i + 2] = <<get_current_temp(temp)>>],
          solutions |-> [solutions_buf EXCEPT
                            ![i + 2] = get_current_solution(problem)],
          temp |-> update_temp(temp), updates |-> 1]

\* the advance made before the history writes
record_and_advance_early(i, temps_buf, solutions_buf, temp, problem) ==
    LET advanced == update_temp(temp)
    IN  IF i >= Len(temps_buf)
        THEN [raised |-> "IndexError", temps |-> temps_buf,
              solutions |-> solutions_buf, temp |-> advanced, updates |-> 1]
        ELSE IF i >= Len(solutions_buf)
        THEN [raised |-> "IndexError",
              temps |-> [temps_buf EXCEPT
                            ![i + 1] = <<get_current_temp(advanced)>>],
              solutions |-> solutions_buf, temp |-> advanced, updates |-> 1]
        ELSE [raised |-> NoFault,
              temps |-> [temps_buf EXCEPT
                            ![i + 1] = <<get_current_temp(advanced)>>],
              solutions |-> [solutions_buf EXCEPT
                                ![i + 1] = get_current_solution(problem)],
              temp |-> advanced, updates |-> 1]

\* the three statements after the loop: two history writes, then the advance
record_and_advance(i, temps_buf, solutions_buf, temp, problem) ==
    IF i >= Len(temps_buf)
    THEN [raised |-> "IndexError", temps |-> temps_buf,
          solutions |-> solutions_buf, temp |-> temp, updates |-> 0]
    ELSE IF i >= Len(solutions_buf)
    THEN [raised |-> "IndexError",
          temps |-> [temps_buf EXCEPT ![i + 1] = <<get_current_temp(temp)>>],
          solutions |-> solutions_buf, temp |-> temp, updates |-> 0]
    ELSE [raised |-> NoFault,
          temps |-> [temps_buf EXCEPT ![i + 1] = <<get_current_temp(temp)>>],
          solutions |-> [solutions_buf EXCEPT
                            ![i + 1] = get_current_solution(problem)],
          temp |-> update_temp(temp), updates |-> 1]

\* ------------------------------------------------------------ state machine
NoCall ==
    [temps |-> None, solutions |-> None, temp |-> 0, solution |-> None,
     committed |-> None, k |-> 0, steps |-> 0, draws |-> 0,
     nonimproving |-> 0, updates |-> 0, done |-> FALSE]

EmptyBuffer(n) == [j \in 1 .. n |-> None]

\* what a driver passes to update_current_solution: a raw value, or (as line
\* 110 does) an OptimizationSolution that the Problem returned
DriverArgs ==
    {Raw(n) : n \in RawValues \cup {Infeasible}} \cup
    {OptimizationSolution(Raw(n), ObjectiveTable(n)) : n \in RawValues}

Init ==
    /\ objective_on_object \in
           {[raised |-> "ObjectiveFault", value |-> 0]} \cup
           {[raised |-> NoFault, value |-> ObjectiveTable(0) + 1]}
    /\ \E x \in RawValues :
           /\ objective_function(Raw(x)).raised = NoFault
           /\ current_solution = construct(Raw(x))
    /\ current_temp \in {0, MaxTemp}   \* a schedule already cold, or at its start
    /\ temps = EmptyBuffer(MaxCalls)
    /\ solutions \in {EmptyBuffer(MaxCalls - 1), EmptyBuffer(MaxCalls)}
    /\ pc = "idle"
    /\ iter_count = 0
    /\ remaining = 0
    /\ op = "construct"
    /\ raised = NoFault
    /\ step = NoStep
    /\ call = NoCall
    /\ calls = 0

\* the driver calls problem.find_neighbour_solution()
DriverFindNeighbour ==
    /\ pc = "idle"
    /\ \E picked \in solution_updater(get_solution_value(current_solution)) :
           LET found == find_neighbour_solution(current_solution, picked)
           IN  /\ current_solution' = found.problem
               /\ raised' = found.raised
    /\ op' = "find_neighbour_solution"
    /\ step' = NoStep
    /\ call' = NoCall
    /\ UNCHANGED <<current_temp, temps, solutions, pc, iter_count, remaining,
                   objective_on_object, calls>>

\* the driver calls annealer.run_annealing_step()
DriverRunStep ==
    /\ pc = "idle"
    /\ \E picked \in solution_updater(get_solution_value(current_solution)),
          draw \in RandomDraws :
           LET ran == run_annealing_step(current_solution, current_temp,
                                         picked, draw)
           IN  /\ current_solution' = ran.problem
               /\ raised' = ran.raised
               /\ step' = ran
    /\ op' = "run_annealing_step"
    /\ call' = NoCall
    /\ UNCHANGED <<current_temp, temps, solutions, pc, iter_count, remaining,
                   objective_on_object, calls>>

\* the driver calls annealer.should_change_solution(old_value, new_value) to
\* judge a candidate objective value against the Problem's current one
DriverShouldChange ==
    /\ pc = "idle"
    /\ \E new_value \in ObjectiveValues, draw \in RandomDraws :
           LET old_value == get_current_objective_value(current_solution)
               change == should_change_solution(current_temp, old_value,
                                                new_value, draw)
           IN  step' = [NoStep EXCEPT
                           !.judged = TRUE,
                           !.old_value = old_value,
                           !.new_value = new_value,
                           !.temp = get_current_temp(current_temp),
                           !.accepted = change.result,
                           !.draws = change.draws,
                           !.draw = IF change.draws = 0 THEN 0 ELSE draw]
    /\ op' = "should_change_solution"
    /\ raised' = NoFault
    /\ call' = NoCall
    /\ UNCHANGED <<current_solution, current_temp, temps, solutions, pc,
                   iter_count, remaining, objective_on_object, calls>>

\* the driver calls problem.update_current_solution(arg)
DriverUpdate ==
    /\ pc = "idle"
    /\ \E arg \in DriverArgs :
           LET updated == update_current_solution(current_solution, arg)
           IN  /\ current_solution' = updated.problem
               /\ raised' = updated.raised
    /\ op' = "update_current_solution"
    /\ step' = NoStep
    /\ call' = NoCall
    /\ UNCHANGED <<current_temp, temps, solutions, pc, iter_count, remaining,
                   objective_on_object, calls>>

\* perform_annealing_iteration(i, temps, solutions) is entered: line 108
\* evaluates the iteration function once
PerformCall ==
    /\ pc = "idle"
    /\ calls < MaxCalls
    /\ calls' = calls + 1
    /\ \E count \in iteration_function(calls) :
           /\ iter_count' = calls
           /\ raised' = count.raised
           /\ pc' = IF count.raised = NoFault THEN "loop" ELSE "idle"
           /\ remaining' = loop_count(count.value)
           /\ call' = [NoCall EXCEPT !.temps = temps, !.solutions = solutions,
                                     !.temp = current_temp,
                                     !.solution = current_solution,
                                     !.committed = current_solution,
                                     !.k = count.value]
    /\ op' = "perform_call"
    /\ step' = NoStep
    /\ UNCHANGED <<current_solution, current_temp, temps, solutions,
                   objective_on_object>>

\* one pass of the loop: lines 109-110
InnerStep ==
    /\ pc = "loop"
    /\ remaining > 0
    /\ \E picked \in solution_updater(get_solution_value(current_solution)),
          draw \in RandomDraws :
           LET pass == inner_step(current_solution, current_temp, picked, draw)
               next == after_step(pass.raised, remaining)
           IN  /\ current_solution' = pass.problem
               /\ raised' = pass.raised
               /\ step' = [pass.step EXCEPT !.committed = pass.committed]
               /\ pc' = next.pc
               /\ remaining' = next.remaining
               /\ call' = [call EXCEPT
                     !.committed = IF pass.committed THEN pass.problem ELSE @,
                     !.steps = @ + (IF pass.committed THEN 1 ELSE 0),
                     !.draws = @ + pass.step.draws,
                     !.nonimproving = @ +
                        (IF pass.step.judged
                            /\ pass.step.new_value >= pass.step.old_value
                         THEN 1 ELSE 0)]
    /\ op' = "inner_step"
    /\ UNCHANGED <<current_temp, temps, solutions, iter_count,
                   objective_on_object, calls>>

\* the loop is over: lines 111-113
PerformReturn ==
    /\ pc = "loop"
    /\ remaining = 0
    /\ LET out == record_and_advance(iter_count, temps, solutions,
                                     current_temp, current_solution)
       IN  /\ temps' = out.temps
           /\ solutions' = out.solutions
           /\ current_temp' = out.temp
           /\ raised' = IF out.raised # NoFault THEN out.raised ELSE raised
           /\ call' = [call EXCEPT !.updates = @ + out.updates,
                                   !.done = (out.raised = NoFault)]
    /\ pc' = "idle"
    /\ op' = "perform_return"
    /\ UNCHANGED <<current_solution, iter_count, remaining,
                   objective_on_object, step, calls>>

Next ==
    \/ DriverFindNeighbour
    \/ DriverRunStep
    \/ DriverUpdate
    \/ DriverShouldChange
    \/ PerformCall
    \/ InnerStep
    \/ PerformReturn

Spec == Init /\ [][Next]_vars

\* ------------------------------------------------------------- properties
CallerFaults == {"ObjectiveFault", "UpdaterFault", "IterationFault"}

\* the call of perform_annealing_iteration that acted last returned normally
Returned == op = "perform_return" /\ call.done

\* C1: at every observable point the Problem's stored objective value is the
\* objective function applied to the Problem's stored current value
C1_ObjectiveMatchesValue ==
    LET objective == objective_function(get_current_solution(current_solution))
    IN  /\ objective.raised = NoFault
        /\ get_current_objective_value(current_solution) = objective.value

\* an inner step committed the neighbour it accepted
C1_Witness == op = "inner_step" /\ step.committed /\ step.accepted

\* C2: a call of perform_annealing_iteration(i, temps, solutions) that
\* completes, whatever its inner-step count, writes temps[i] and solutions[i],
\* leaves every other index and both lengths as they were, and advances the
\* schedule exactly once
C2_WritesOneIndexAdvancesOnce ==
    Returned =>
        /\ Len(temps) = Len(call.temps)
        /\ Len(solutions) = Len(call.solutions)
        /\ temps[iter_count + 1] # None
        /\ solutions[iter_count + 1] # None
        /\ \A j \in DOMAIN temps :
               j # iter_count + 1 => temps[j] = call.temps[j]
        /\ \A j \in DOMAIN solutions :
               j # iter_count + 1 => solutions[j] = call.solutions[j]
        /\ call.updates = 1
        /\ current_temp = update_temp(call.temp)

\* the second outer iteration completed all of its k >= 1 inner steps, with
\* index 0 already written by the first
C2_Witness ==
    /\ Returned
    /\ iter_count = 1
    /\ call.k >= 1
    /\ call.steps = call.k
    /\ call.temps[1] # None

\* C3: find_neighbour_solution and run_annealing_step leave the Problem's
\* current solution as it was, whether the step accepts or rejects; the
\* current solution changes only through update_current_solution, called by
\* the driver or by the loop of perform_annealing_iteration
C3_OnlyUpdateChangesCurrent ==
    [][/\ op' \in {"find_neighbour_solution", "run_annealing_step"}
           => current_solution' = current_solution
       /\ current_solution' # current_solution
           => op' \in {"update_current_solution", "inner_step"}]_vars

\* run_annealing_step, called on its own, accepted the neighbour
C3_Witness ==
    op = "run_annealing_step" /\ step.judged /\ step.accepted
    /\ step.returned = step.neighbour

\* C4: at temperature 0 a candidate that is no improvement is rejected for
\* every random draw in [0, 1), and annealing_function returns 0
C4_ZeroTempRejects ==
    (step.judged /\ step.temp = 0 /\ step.new_value >= step.old_value) =>
        /\ annealing_function(0, step.old_value, step.new_value) = 0
        /\ ~step.accepted

\* C5: when the iteration function returns 0, the call leaves the Problem's
\* current solution and objective value as they were, stores that solution at
\* solutions[i] and the temperature held before the advance at temps[i], and
\* advances the schedule once
C5_ZeroStepsIteration ==
    (Returned /\ call.k = 0) =>
        /\ current_solution = call.solution
        /\ solutions[iter_count + 1] = get_current_solution(call.solution)
        /\ temps[iter_count + 1] = <<call.temp>>
        /\ call.updates = 1
        /\ current_temp = update_temp(call.temp)

\* a call with no inner steps returned, and the advance changed the temperature
C5_Witness ==
    Returned /\ call.k = 0 /\ call.temp > 0 /\ current_temp # call.temp

\* C6: should_change_solution returns true without a random draw when
\* new_value < old_value, at any temperature, and consumes exactly one draw
\* otherwise; so the draws of an outer iteration are as many as the proposals
\* it judged that were no improvement
C6_DrawsCountNonImproving ==
    /\ step.judged =>
        /\ step.new_value < step.old_value
               => (step.accepted /\ step.draws = 0)
        /\ step.new_value >= step.old_value => step.draws = 1
    /\ call.draws = call.nonimproving

\* an outer iteration of two steps returned: one proposal was an improvement
\* and one was not
C6_Witness ==
    Returned /\ call.k = 2 /\ call.steps = 2 /\ call.draws = 1

\* C7: a fault of the objective function, the solution updater or the
\* iteration function during perform_annealing_iteration reaches the caller;
\* the call then writes neither buffer and does not advance the schedule, and
\* the current solution is the one the last completed inner step committed
C7_FaultLeavesNoRecord ==
    (op \in {"perform_call", "inner_step", "perform_return"}
        /\ raised \in CallerFaults) =>
        /\ pc = "idle"
        /\ op # "perform_return"
        /\ temps = call.temps
        /\ solutions = call.solutions
        /\ current_temp = call.temp
        /\ call.updates = 0
        /\ current_solution = call.committed

\* the objective function raised in the second inner step, after the first
\* had committed another solution
C7_Witness ==
    /\ op = "inner_step"
    /\ raised = "ObjectiveFault"
    /\ call.steps = 1
    /\ current_solution # call.solution

\* C8: an inner step returns a Solution whether it accepts or rejects (the
\* neighbour, or the unchanged current solution), and committing an accepted
\* neighbour N makes the current value N's value and the current objective
\* value the objective of N's value
C8_CommitStoresNeighbourValue ==
    (op = "inner_step" /\ step.committed) =>
        IF step.accepted
        THEN /\ get_current_solution(current_solution)
                    = get_solution_value(step.neighbour)
             /\ get_current_objective_value(current_solution)
                    = get_objective_value(step.neighbour)
        ELSE step.returned = step.problem

\* C9: every inner step that obtains a neighbour judges it, against the
\* Problem's current objective value as the previous step committed it, and
\* the neighbour is generated from that committed current value
C9_JudgedAgainstCurrentObjective ==
    (op = "inner_step" /\ step.proposed) =>
        /\ step.judged
        /\ step.old_value = get_current_objective_value(call.committed)
        /\ step.updater_arg = get_current_solution(call.committed)

\* C10: within one call every acceptance decision uses the temperature held
\* at entry, that temperature is the value written to temps[i], and the
\* schedule advances only after the last inner step and both history writes
C10_TemperatureFixedPerIteration ==
    /\ pc = "loop" => (current_temp = call.temp /\ call.updates = 0)
    /\ (op = "inner_step" /\ step.judged) => step.temp = call.temp
    /\ op = "perform_return" =>
        IF call.done
        THEN temps[iter_count + 1] = <<call.temp>> /\ call.updates = 1
        ELSE current_temp = call.temp /\ call.updates = 0

\* the second outer iteration made its two decisions and recorded a
\* temperature other than the first iteration's
C10_Witness ==
    /\ Returned
    /\ iter_count = 1
    /\ call.steps = 2
    /\ step.judged
    /\ temps[1] # temps[2]

====
